---- MODULE Spec2Model ----
\* Verification model of terraform-provider-cockroach-extra:
\*   - the persistent cursor ledger (table persistent_cursors) and the
\*     changefeed resource's Create and Update handlers that claim and
\*     release cursors and drive the changefeed job through PAUSE / ALTER /
\*     RESUME / CANCEL (specification Spec);
\*   - the scoped SQL executor SqlConWithTempUser with the credential broker and
\*     the connection pool registry (specification SpecExec).
\*
\* One changefeed handler is followed step by step; the handlers that run
\* beside it (cursor Create and Delete, and the cursor claims and releases of
\* other changefeed handlers) act on the ledger in whole transactions, taken
\* whenever the process-wide credential lock is free.  A handler's request (the
\* plan and the prior state Terraform hands it) is an input of its first step.
\* The cluster is modelled as executing every statement it is sent; a statement
\* fails only for a reason the job's status gives (PAUSE, RESUME, CANCEL or
\* ALTER of a job whose status does not allow it), and CREATE CHANGEFEED may be
\* rejected.  Jobs change status on their own: they fail, succeed, complete a
\* requested pause, resume or cancel, and finished jobs age out of the listing.
EXTENDS Integers, Sequences, FiniteSets, TLC

\* ---------------------------------------------------------------- bounds
MaxJobs == 2            \* job ids the cluster hands out: 1..MaxJobs
MaxKeys == 2            \* cursor keys: 1..MaxKeys
MaxClusters == 1        \* cluster ids: 1..MaxClusters
MaxCalls == 2           \* goroutines calling SqlConWithTempUser
MaxPw == 2              \* passwords uuid.New() hands out: 1..MaxPw

Keys == 1..MaxKeys

\* ------------------------------------------------------- program constants
Attempts == 20          \* retry.Attempts(20) in waitForJobStatus
Null == 0               \* SQL NULL / Go nil in last_used_job_id and *int64 jobId
NoKey == 0              \* var cursorKey string: the zero value, no persistent_cursor

Terminal == {"canceled", "failed", "succeeded", "canceling"}
Statuses == {"running", "paused"} \cup Terminal
NoStatus == "none"      \* the status subquery returns NULL / the job query no row

VARIABLES
    ledger,     \* persistent_cursors: key -> last_used_job_id (Null or a job id), DOMAIN = the rows
    jobs,       \* the cluster's changefeed jobs: job id -> [status, req]
    lock,       \* userCredMapResource.lock: TRUE while a SqlConWithTempUser call of the handler holds it
    proc,       \* the changefeed handler in flight: its position, locals and response
    credMap,    \* userCredMapResource.resource: cluster -> NoUser or the cached user's password
    sqlConMap,  \* CcloudClient.sqlConMap: cluster -> database -> pool (NoPool for nil)
    users,      \* the well-known SQL user on each cluster: [exists, pw, valid]
    pwCount,    \* passwords generated so far
    calls,      \* the SqlConWithTempUser calls: position, arguments, steps taken, outcome
    feed,       \* a changefeed's declared options through Create's rendering and Read's parsing
    schedules,  \* the labels of the backup schedules on the cluster
    backup      \* the backup schedule Create in flight: its plan, position and response

cfVars == <<ledger, jobs, proc>>
execVars == <<credMap, sqlConMap, users, pwCount, calls>>
declVars == <<feed, schedules, backup>>

\* A handler before its first step.  log: the job statements sent and the
\* statuses the watcher matched, in order; claim*: the UpdateCursorJobId call
\* made; err: resp.Diagnostics has an error; saved: resp.State.Set was called,
\* with savedStatus and savedJob in the state; stStatus: the prior state's
\* status as Update's first check reads it.
IdleProc == [op |-> "none", pc |-> "idle", jobId |-> 0, cursorKey |-> NoKey,
             stStatus |-> "", stCursor |-> NoKey, banned |-> FALSE,
             attempts |-> 0, log |-> <<>>,
             claim |-> "none", claimKey |-> NoKey, claimJob |-> Null,
             claimPrev |-> NoStatus, claimErr |-> "nil",
             err |-> FALSE, saved |-> FALSE, savedStatus |-> "", savedJob |-> 0,
             clauses |-> {}]

\* The provider process is gone once a handler panicked.
Crashed == proc.pc = "crashed"

\* A handler that has finished returns at once: the other steps are taken
\* before it finished or after it returned (they commute with Return).
Returning == proc.pc = "done"

\* ------------------------------------------------------------ the cluster
\* SELECT status FROM [SHOW CHANGEFEED JOB j] / [show changefeed jobs] where job_id = j
JobStatusOf(j) ==
    IF j \in 1..Len(jobs) /\ jobs[j].status # "unlisted" THEN jobs[j].status ELSE NoStatus

\* A job the cluster accepted starts running.
JobStarts(j) ==
    /\ ~Returning
    /\ j \in 1..Len(jobs)
    /\ jobs[j].status = "pending"
    /\ jobs' = [jobs EXCEPT ![j].status = "running"]
    /\ UNCHANGED <<ledger, lock, proc>>
    /\ UNCHANGED <<execVars, declVars>>

\* A running job completes a requested pause.
JobPauses(j) ==
    /\ ~Returning
    /\ j \in 1..Len(jobs)
    /\ jobs[j].status = "running" /\ jobs[j].req = "pause"
    /\ jobs' = [jobs EXCEPT ![j] = [status |-> "paused", req |-> "none"]]
    /\ UNCHANGED <<ledger, lock, proc>>
    /\ UNCHANGED <<execVars, declVars>>

\* A paused job completes a requested resume.
JobResumes(j) ==
    /\ ~Returning
    /\ j \in 1..Len(jobs)
    /\ jobs[j].status = "paused" /\ jobs[j].req = "resume"
    /\ jobs' = [jobs EXCEPT ![j] = [status |-> "running", req |-> "none"]]
    /\ UNCHANGED <<ledger, lock, proc>>
    /\ UNCHANGED <<execVars, declVars>>

\* A running job ends on its own: it fails, or reaches its end_time.
JobEnds(j, s) ==
    /\ ~Returning
    /\ j \in 1..Len(jobs)
    /\ s \in {"failed", "succeeded"}
    /\ jobs[j].status = "running"
    /\ jobs' = [jobs EXCEPT ![j] = [status |-> s, req |-> "none"]]
    /\ UNCHANGED <<ledger, lock, proc>>
    /\ UNCHANGED <<execVars, declVars>>

\* A canceling job finishes canceling.
JobCanceled(j) ==
    /\ ~Returning
    /\ j \in 1..Len(jobs)
    /\ jobs[j].status = "canceling"
    /\ jobs' = [jobs EXCEPT ![j] = [status |-> "canceled", req |-> "none"]]
    /\ UNCHANGED <<ledger, lock, proc>>
    /\ UNCHANGED <<execVars, declVars>>

\* A finished job ages out of the job listing.
JobUnlisted(j) ==
    /\ ~Returning
    /\ j \in 1..Len(jobs)
    /\ jobs[j].status \in {"canceled", "failed", "succeeded"}
    /\ jobs' = [jobs EXCEPT ![j] = [status |-> "unlisted", req |-> "none"]]
    /\ UNCHANGED <<ledger, lock, proc>>
    /\ UNCHANGED <<execVars, declVars>>

\* ------------------------------------------------- persistent cursor ledger
\* tx.Rollback(): ErrTxClosed once the transaction is no longer in progress.
TxRollback(txStatus) == IF txStatus = "in_progress" THEN "nil" ELSE "ErrTxClosed"

\* defer func() { r := tx.Rollback(); if r != nil { err = r } }()
DeferredRollback(err, txStatus) ==
    LET r == TxRollback(txStatus) IN IF r # "nil" THEN r ELSE err

\* The count query left out: no other cursor is ever found.
otherCursorCountNone(key, jobId) == 0

\* select count(*) from persistent_cursors where last_used_job_id = $1 and key != $2
\* (with $1 NULL the comparison is never true)
otherCursorCount(key, jobId) ==
    IF jobId = Null THEN 0
    ELSE Cardinality({k \in DOMAIN ledger : k # key /\ ledger[k] = jobId})

\* currentJobId != nil && !(*status == "canceled" || ... || *status == "canceling")
StillInUse(currentJobId, status) ==
    currentJobId # Null /\ status \notin Terminal

\* UpdateCursorJobId(key, jobId): the transaction's effect on the table, the
\* error it returns ("nil" for none) and how it ended.
UpdateCursorJobId(key, jobId) ==
    LET prev == IF key \in DOMAIN ledger /\ ledger[key] # Null
                THEN JobStatusOf(ledger[key]) ELSE NoStatus
        body ==
          IF key \notin DOMAIN ledger
          THEN [ledger |-> ledger, err |-> "ErrNoRows", tx |-> "in_progress", out |-> "norows"]
          ELSE IF ledger[key] # Null /\ prev = NoStatus
          THEN [ledger |-> ledger, err |-> "panic", tx |-> "in_progress", out |-> "panic"]
          ELSE IF StillInUse(ledger[key], prev)
          THEN [ledger |-> ledger, err |-> "in use", tx |-> "in_progress", out |-> "inuse"]
          ELSE IF otherCursorCount(key, jobId) > 0
          THEN [ledger |-> ledger, err |-> "multiple cursors", tx |-> "in_progress", out |-> "multi"]
          ELSE [ledger |-> [ledger EXCEPT ![key] = jobId], err |-> "nil",
                tx |-> "committed", out |-> "committed"]
    IN [ledger |-> body.ledger, out |-> body.out, prev |-> prev,
        err |-> IF body.out = "panic" THEN "panic" ELSE DeferredRollback(body.err, body.tx)]

\* cursorValue.InUse as Create reads it from GetCursor: the owning job exists
\* and is not in a terminal status.
CursorInUse(key) ==
    /\ key \in DOMAIN ledger
    /\ ledger[key] # Null
    /\ JobStatusOf(ledger[key]) # NoStatus
    /\ JobStatusOf(ledger[key]) \notin Terminal

\* PersistentCursorResource.Create: INSERT INTO persistent_cursors (key, resume_offset)
CursorCreate(k) ==
    /\ ~Crashed /\ ~Returning
    /\ ~lock
    /\ k \in Keys
    /\ k \notin DOMAIN ledger
    /\ ledger' = [x \in DOMAIN ledger \cup {k} |-> IF x = k THEN Null ELSE ledger[x]]
    /\ UNCHANGED <<jobs, lock, proc>>
    /\ UNCHANGED <<execVars, declVars>>

\* PersistentCursorResource.Delete: DELETE FROM persistent_cursors WHERE key = $1
CursorDelete(k) ==
    /\ ~Crashed /\ ~Returning
    /\ ~lock
    /\ k \in DOMAIN ledger
    /\ ledger' = [x \in DOMAIN ledger \ {k} |-> ledger[x]]
    /\ UNCHANGED <<jobs, lock, proc>>
    /\ UNCHANGED <<execVars, declVars>>

\* A watcher that takes the first answer of the status query for the awaited status.
waitForJobStatusBlind(attempts, jobId, status) == "ok"

\* A watcher that asks until the awaited status is seen, however often.
waitForJobStatusUnbounded(attempts, jobId, status) ==
    IF JobStatusOf(jobId) = status THEN "ok" ELSE "retry"

\* ------------------------------------------------------ job status watcher
\* One attempt of waitForJobStatus(db, jobId, status) after `attempts` earlier
\* ones: "ok" when the query observes status, "timeout" when this was the last
\* of the Attempts attempts, else "retry".
waitForJobStatus(attempts, jobId, status) ==
    IF JobStatusOf(jobId) = status THEN "ok"
    ELSE IF attempts + 1 >= Attempts THEN "timeout"
    ELSE "retry"

\* ---------------------------------------------- statements sent to the cluster
\* CANCEL JOB j: accepted for a job that has not finished; the job is canceling.
CancelJobOk(j) == JobStatusOf(j) \in {"pending", "running", "paused"}
CancelJob(j) == [jobs EXCEPT ![j] = [status |-> "canceling", req |-> "none"]]

\* PAUSE JOB j: accepted for a running job (pause requested) or a paused one.
PauseJobOk(j) == JobStatusOf(j) \in {"pending", "running", "paused"}
PauseJob(j) ==
    IF jobs[j].status \in {"pending", "running"} THEN [jobs EXCEPT ![j].req = "pause"] ELSE jobs

\* ALTER CHANGEFEED j: accepted for a paused job only.
AlterJobOk(j) == JobStatusOf(j) = "paused"

\* RESUME JOB j: accepted for a paused job (resume requested).
ResumeJobOk(j) == JobStatusOf(j) = "paused"
ResumeJob(j) == [jobs EXCEPT ![j].req = "resume"]

\* --------------------------------------------------- ChangefeedResource.Create
CanStart == proc.pc = "idle" /\ ~lock

\* The handler returns: its response (diagnostics and state) goes to Terraform.
Return ==
    /\ proc.pc = "done"
    /\ proc' = IdleProc
    /\ UNCHANGED <<ledger, jobs, lock>>
    /\ UNCHANGED <<execVars, declVars>>

\* Create, up to the statement: read the config, and with a persistent_cursor
\* read the cursor (GetCursor) and stop if it is in use.
CreateBegin(key) ==
    /\ CanStart
    /\ Len(jobs) < MaxJobs
    /\ key \in {NoKey} \cup Keys
    /\ proc' = IF key # NoKey /\ CursorInUse(key)
               THEN [IdleProc EXCEPT !.op = "create", !.pc = "done", !.cursorKey = key,
                                     !.err = TRUE]
               ELSE [IdleProc EXCEPT !.op = "create", !.pc = "c_exec", !.cursorKey = key]
    /\ UNCHANGED <<ledger, jobs, lock>>
    /\ UNCHANGED <<execVars, declVars>>

\* CREATE CHANGEFEED ... : the cluster rejects it, or creates a job (running at
\* once, or still pending) and returns its id.
CreateExec(accepted) ==
    /\ proc.pc = "c_exec"
    /\ ~lock
    /\ accepted \in {"no", "pending", "running"}
    /\ IF accepted # "no"
       THEN /\ jobs' = Append(jobs, [status |-> accepted, req |-> "none"])
            /\ lock' = TRUE
            /\ proc' = [proc EXCEPT !.pc = "c_wait_running", !.jobId = Len(jobs) + 1,
                                    !.attempts = 0, !.log = Append(@, "CREATE")]
       ELSE /\ proc' = [proc EXCEPT !.pc = "done", !.err = TRUE, !.log = Append(@, "CREATE")]
            /\ UNCHANGED <<jobs, lock>>
    /\ UNCHANGED ledger
    /\ UNCHANGED <<execVars, declVars>>

\* waitForJobStatus(db, jobId, "running") inside the creating handler; on a
\* timeout Create reports the error and returns.
CreateWaitRunning ==
    /\ proc.pc = "c_wait_running"
    /\ lock
    /\ LET w == waitForJobStatus(proc.attempts, proc.jobId, "running") IN
       /\ proc' = IF w = "ok" THEN [proc EXCEPT !.pc = "c_claim", !.attempts = 0,
                                                !.log = Append(@, "saw running")]
                  ELSE IF w = "timeout" THEN [proc EXCEPT !.pc = "done", !.err = TRUE,
                                                          !.attempts = 0]
                  ELSE [proc EXCEPT !.attempts = @ + 1]
       /\ lock' = (w = "retry")
    /\ UNCHANGED <<ledger, jobs>>
    /\ UNCHANGED <<execVars, declVars>>

\* UpdateCursorJobId(cursorKey, jobId) after the job was seen running; state is
\* saved when it returns no error, else the job is to be canceled.
CreateClaim ==
    /\ proc.pc = "c_claim"
    /\ ~lock
    /\ LET u == UpdateCursorJobId(proc.cursorKey, proc.jobId) IN
       /\ ledger' = u.ledger
       /\ proc' = [proc EXCEPT !.claim = u.out, !.claimKey = proc.cursorKey,
                      !.claimJob = proc.jobId, !.claimPrev = u.prev, !.claimErr = u.err,
                      !.pc = IF u.err = "panic" THEN "crashed"
                             ELSE IF u.err = "nil" THEN "done" ELSE "c_cancel",
                      !.err = (u.err # "nil"),
                      !.saved = (u.err = "nil"),
                      !.savedStatus = IF u.err = "nil" THEN "running" ELSE "",
                      !.savedJob = IF u.err = "nil" THEN proc.jobId ELSE 0]
    /\ UNCHANGED <<jobs, lock>>
    /\ UNCHANGED <<execVars, declVars>>

\* CANCEL JOB jobId after a failed claim.
CreateCancel ==
    /\ proc.pc = "c_cancel"
    /\ ~lock
    /\ IF CancelJobOk(proc.jobId)
       THEN /\ jobs' = CancelJob(proc.jobId)
            /\ lock' = TRUE
            /\ proc' = [proc EXCEPT !.pc = "c_wait_canceled", !.attempts = 0,
                                    !.log = Append(@, "CANCEL")]
       ELSE /\ proc' = [proc EXCEPT !.pc = "done", !.log = Append(@, "CANCEL")]
            /\ UNCHANGED <<jobs, lock>>
    /\ UNCHANGED ledger
    /\ UNCHANGED <<execVars, declVars>>

\* waitForJobStatus(db, jobId, "canceled") after the CANCEL JOB.
CreateWaitCanceled ==
    /\ proc.pc = "c_wait_canceled"
    /\ lock
    /\ LET w == waitForJobStatus(proc.attempts, proc.jobId, "canceled") IN
       /\ proc' = IF w = "ok" THEN [proc EXCEPT !.pc = "done", !.attempts = 0,
                                                !.log = Append(@, "saw canceled")]
                  ELSE IF w = "timeout" THEN [proc EXCEPT !.pc = "done", !.attempts = 0]
                  ELSE [proc EXCEPT !.attempts = @ + 1]
       /\ lock' = (w = "retry")
    /\ UNCHANGED <<ledger, jobs>>
    /\ UNCHANGED <<execVars, declVars>>

\* The option loop without the bannedOptionUpdates check.
AfterOptionsUnchecked(p) == [p EXCEPT !.pc = "u_exec"]

\* --------------------------------------------------- ChangefeedResource.Update
\* The loop over the options: a changed end_time, full_table_name or
\* initial_scan ends Update with an error; otherwise the ALTER is built.
AfterOptions(p) ==
    IF p.banned THEN [p EXCEPT !.pc = "done", !.err = TRUE]
    ELSE [p EXCEPT !.pc = "u_exec"]

\* stateStatus := stateData.Status.ValueString(), as far as Update tells the
\* values apart: it reads it in its first check only, which takes running and
\* paused alike.
StateStatusOf(status) == IF status \in Terminal THEN status ELSE "running"

\* The status check left out.
NotRunningIgnored(stateStatus) == FALSE

\* stateStatus == "canceled" || "failed" || "succeeded" || "canceling"
NotRunning(stateStatus) == stateStatus \in Terminal

\* What the plan changes against the state: targets added or removed, mutable
\* options (or the sink) set, options unset.  The plans taken: nothing of
\* these changed, one option set, one target replaced by another.
NoDelta == [added |-> FALSE, removed |-> FALSE, set |-> FALSE, unset |-> FALSE]
Deltas == {NoDelta, [NoDelta EXCEPT !.set = TRUE],
           [NoDelta EXCEPT !.added = TRUE, !.removed = TRUE]}

\* The clauses of the ALTER CHANGEFEED query: each of addTargetStatement,
\* removeTargetStatement, setStatement and unsetStatement is empty unless its
\* list has an element.
AlterClauses(delta) ==
    {c \in {"ADD", "DROP", "SET", "UNSET"} :
        \/ c = "ADD" /\ delta.added
        \/ c = "DROP" /\ delta.removed
        \/ c = "SET" /\ delta.set
        \/ c = "UNSET" /\ delta.unset}

\* Update, up to the first call that needs the cluster: the status and select
\* checks, then the persistent_cursor comparison.  st is the prior state.
UpdateBegin(st, planCursor, bannedChanged, delta) ==
    /\ CanStart
    /\ st \in [jobId : 1..Len(jobs), status : Statuses, cursor : {NoKey} \cup Keys,
               sel : BOOLEAN]
    /\ planCursor \in {NoKey} \cup Keys
    /\ bannedChanged \in BOOLEAN
    /\ delta \in Deltas
    /\ LET early == [IdleProc EXCEPT !.op = "update", !.pc = "done", !.err = TRUE,
                                     !.stStatus = StateStatusOf(st.status),
                                     !.banned = bannedChanged]
           p0 == [IdleProc EXCEPT !.op = "update", !.jobId = st.jobId,
                                  !.cursorKey = planCursor,
                                  !.stStatus = StateStatusOf(st.status),
                                  !.stCursor = st.cursor, !.banned = bannedChanged,
                                  !.clauses = IF bannedChanged THEN {} ELSE AlterClauses(delta)]
       IN proc' = IF NotRunning(st.status) THEN early
                  ELSE IF st.sel THEN early
                  ELSE IF planCursor # st.cursor THEN [p0 EXCEPT !.pc = "u_claim"]
                  ELSE AfterOptions(p0)
    /\ UNCHANGED <<ledger, jobs, lock>>
    /\ UNCHANGED <<execVars, declVars>>

\* The persistent_cursor changed: release the state's cursor when the plan has
\* none, else claim the plan's cursor for the job.
UpdateClaim ==
    /\ proc.pc = "u_claim"
    /\ ~lock
    /\ LET release == proc.cursorKey = NoKey
           key == IF release THEN proc.stCursor ELSE proc.cursorKey
           job == IF release THEN Null ELSE proc.jobId
           u == UpdateCursorJobId(key, job)
           p1 == [proc EXCEPT !.claim = u.out, !.claimKey = key, !.claimJob = job,
                              !.claimPrev = u.prev, !.claimErr = u.err]
       IN /\ ledger' = u.ledger
          /\ proc' = IF u.err = "panic" THEN [p1 EXCEPT !.pc = "crashed"]
                     ELSE IF u.err # "nil" THEN [p1 EXCEPT !.pc = "done", !.err = TRUE]
                     ELSE AfterOptions(p1)
    /\ UNCHANGED <<jobs, lock>>
    /\ UNCHANGED <<execVars, declVars>>

\* PAUSE JOB jobId WITH REASON='Terraform Update'
UpdatePause ==
    /\ proc.pc = "u_exec"
    /\ ~lock
    /\ IF PauseJobOk(proc.jobId)
       THEN /\ jobs' = PauseJob(proc.jobId)
            /\ lock' = TRUE
            /\ proc' = [proc EXCEPT !.pc = "u_wait_paused", !.attempts = 0,
                                    !.log = Append(@, "PAUSE")]
       ELSE /\ proc' = [proc EXCEPT !.pc = "done", !.err = TRUE, !.log = Append(@, "PAUSE")]
            /\ UNCHANGED <<jobs, lock>>
    /\ UNCHANGED ledger
    /\ UNCHANGED <<execVars, declVars>>

\* waitForJobStatus(db, jobId, "paused")
UpdateWaitPaused ==
    /\ proc.pc = "u_wait_paused"
    /\ lock
    /\ LET w == waitForJobStatus(proc.attempts, proc.jobId, "paused") IN
       /\ proc' = IF w = "ok" THEN [proc EXCEPT !.pc = "u_alter", !.attempts = 0,
                                                !.log = Append(@, "saw paused")]
                  ELSE IF w = "timeout" THEN [proc EXCEPT !.pc = "done", !.err = TRUE,
                                                          !.attempts = 0]
                  ELSE [proc EXCEPT !.attempts = @ + 1]
       /\ lock' = (w # "timeout")
    /\ UNCHANGED <<ledger, jobs>>
    /\ UNCHANGED <<execVars, declVars>>

\* A handler that sends the RESUME whatever the ALTER returned.
AfterAlterResumes(ok) == "u_resume"

\* The handler's position after db.Exec(query) returned err (ok = no error).
AfterAlter(ok) == IF ok THEN "u_resume" ELSE "done"

\* ALTER CHANGEFEED jobId <adds> <drops> <sets> <unsets>: the cluster may
\* reject the statement for its clauses (accepted = FALSE) or for the job's status.
UpdateAlter(accepted) ==
    /\ proc.pc = "u_alter"
    /\ lock
    /\ LET ok == accepted /\ AlterJobOk(proc.jobId) IN
       /\ proc' = [proc EXCEPT !.pc = AfterAlter(ok), !.err = ~ok, !.log = Append(@, "ALTER")]
       /\ lock' = (AfterAlter(ok) # "done")
    /\ UNCHANGED <<ledger, jobs>>
    /\ UNCHANGED <<execVars, declVars>>

\* RESUME JOB jobId
UpdateResume ==
    /\ proc.pc = "u_resume"
    /\ lock
    /\ IF ResumeJobOk(proc.jobId)
       THEN /\ jobs' = ResumeJob(proc.jobId)
            /\ proc' = [proc EXCEPT !.pc = "u_wait_running", !.attempts = 0,
                                    !.log = Append(@, "RESUME")]
            /\ lock' = TRUE
       ELSE /\ proc' = [proc EXCEPT !.pc = "done", !.err = TRUE, !.log = Append(@, "RESUME")]
            /\ lock' = FALSE
            /\ UNCHANGED jobs
    /\ UNCHANGED ledger
    /\ UNCHANGED <<execVars, declVars>>

\* waitForJobStatus(db, jobId, "running"), then the plan is saved with status "running".
UpdateWaitRunning ==
    /\ proc.pc = "u_wait_running"
    /\ lock
    /\ LET w == waitForJobStatus(proc.attempts, proc.jobId, "running") IN
       /\ proc' = IF w = "ok" THEN [proc EXCEPT !.pc = "done", !.attempts = 0,
                                                !.saved = TRUE, !.savedStatus = "running",
                                                !.savedJob = proc.jobId,
                                                !.log = Append(@, "saw running")]
                  ELSE IF w = "timeout" THEN [proc EXCEPT !.pc = "done", !.err = TRUE,
                                                          !.attempts = 0]
                  ELSE [proc EXCEPT !.attempts = @ + 1]
       /\ lock' = (w = "retry")
    /\ UNCHANGED <<ledger, jobs>>
    /\ UNCHANGED <<execVars, declVars>>

\* --------------------------------------------------- ChangefeedResource.Delete
\* Delete of a changefeed whose state has job j and the given status: for a
\* running or paused state CANCEL JOB is sent and the job awaited canceled;
\* any other state is left as it is.  The cursor row is not touched.
DeleteBegin(j, status) ==
    /\ CanStart
    /\ j \in 1..Len(jobs)
    /\ status \in Statuses
    /\ LET p == [IdleProc EXCEPT !.op = "delete", !.jobId = j, !.stStatus = StateStatusOf(status)] IN
       IF status \notin {"running", "paused"}
       THEN /\ proc' = [p EXCEPT !.pc = "done", !.saved = TRUE, !.savedStatus = p.stStatus,
                                  !.savedJob = j]
            /\ UNCHANGED <<jobs, lock>>
       ELSE IF CancelJobOk(j)
       THEN /\ jobs' = CancelJob(j)
            /\ lock' = TRUE
            /\ proc' = [p EXCEPT !.pc = "d_wait_canceled", !.log = <<"CANCEL">>]
       ELSE /\ proc' = [p EXCEPT !.pc = "done", !.err = TRUE, !.log = <<"CANCEL">>]
            /\ UNCHANGED <<jobs, lock>>
    /\ UNCHANGED ledger
    /\ UNCHANGED <<execVars, declVars>>

\* waitForJobStatus(db, jobId, "canceled") inside Delete's handler.
DeleteWaitCanceled ==
    /\ proc.pc = "d_wait_canceled"
    /\ lock
    /\ LET w == waitForJobStatus(proc.attempts, proc.jobId, "canceled") IN
       /\ proc' = IF w = "ok" THEN [proc EXCEPT !.pc = "done", !.attempts = 0,
                                                !.saved = TRUE, !.savedStatus = proc.stStatus,
                                                !.savedJob = proc.jobId,
                                                !.log = Append(@, "saw canceled")]
                  ELSE IF w = "timeout" THEN [proc EXCEPT !.pc = "done", !.err = TRUE,
                                                          !.attempts = 0]
                  ELSE [proc EXCEPT !.attempts = @ + 1]
       /\ lock' = (w = "retry")
    /\ UNCHANGED <<ledger, jobs>>
    /\ UNCHANGED <<execVars, declVars>>

\* ------------------------------------------------ the handlers that run beside
\* UpdateCursorJobId called by another changefeed handler (Create's claim,
\* Update's claim or release), as one transaction.
ConcurrentClaim(key, jobId) ==
    /\ ~Crashed /\ ~Returning
    /\ ~lock
    /\ key \in Keys
    /\ jobId \in {Null} \cup (1..Len(jobs))
    /\ UpdateCursorJobId(key, jobId).err # "panic"
    /\ ledger' = UpdateCursorJobId(key, jobId).ledger
    /\ UNCHANGED <<jobs, lock, proc>>
    /\ UNCHANGED <<execVars, declVars>>

\* ====================================================== scoped SQL executor
\* SqlConWithTempUser with the credential broker (getOrCreateTempUser,
\* createTempUser, updateUserExpiration) and the pool registry
\* (getOrCreateConPool).  Each REST call and each SQL statement is one step and
\* may fail.
Clusters == 1..MaxClusters
Databases == {"defaultdb", "appdb"}
Callers == 1..MaxCalls

NoUser == 0             \* credMap[clusterId] == nil
NoPool == [open |-> FALSE, pw |-> 0, gen |-> 0]    \* sqlConMap[clusterId][database] == nil

IdleCall == [pc |-> "idle", cluster |-> 1, db |-> "defaultdb", log |-> <<>>, out |-> "none"]

\* A panic that left SqlConWithTempUser takes the provider process down.
ExecCrashed == \E c \in Callers : calls[c].pc = "panicked"

Has(log, e) == \E i \in 1..Len(log) : log[i] = e
Count(log, e) == Cardinality({i \in 1..Len(log) : log[i] = e})
First(log, e) == CHOOSE i \in 1..Len(log) : log[i] = e /\ \A j \in 1..(i - 1) : log[j] # e

\* A login as the principal with password pw: the user exists, the password is
\* the user's and VALID UNTIL has not passed.
LoginOk(cl, pw) == users[cl].exists /\ users[cl].pw = pw /\ users[cl].valid

\* pool.Exec on a pool of the registry: its connections were opened as the
\* user with the pool's password; the statement can run while that user is there.
PoolExecOk(cl, db) ==
    /\ sqlConMap[cl][db].open
    /\ users[cl].exists /\ users[cl].pw = sqlConMap[cl][db].pw

\* getOrCreateConPool(clusterId, user, database): the registry after the call
\* and whether a pool was returned.  how: "rest" (getConnectionOptions failed),
\* "open" (pgx.NewConnPool failed), "ok"; kept: the value NewConnPool returned
\* beside its error, which the map assignment stores, was not nil.
\* The pool pgx.NewConnPool hands back for a key: gen counts the pool objects
\* stored for the key so far, so two pools of one key are never equal.
NewPool(cl, pw, db, open) == [open |-> open, pw |-> pw, gen |-> sqlConMap[cl][db].gen + 1]

\* A registry that never looks for the pool it already holds.
getOrCreateConPoolUncached(cl, pw, db, how, kept) ==
    IF how = "rest" THEN [map |-> sqlConMap, ok |-> FALSE]
    ELSE IF how = "open" \/ ~LoginOk(cl, pw)
    THEN [map |-> IF kept THEN [sqlConMap EXCEPT ![cl][db] = NewPool(cl, pw, db, FALSE)]
                  ELSE sqlConMap,
          ok |-> FALSE]
    ELSE [map |-> [sqlConMap EXCEPT ![cl][db] = NewPool(cl, pw, db, TRUE)], ok |-> TRUE]

getOrCreateConPool(cl, pw, db, how, kept) ==
    IF sqlConMap[cl][db] # NoPool
    THEN [map |-> sqlConMap, ok |-> TRUE]
    ELSE IF how = "rest" THEN [map |-> sqlConMap, ok |-> FALSE]
    ELSE IF how = "open" \/ ~LoginOk(cl, pw)
    THEN [map |-> IF kept THEN [sqlConMap EXCEPT ![cl][db] = NewPool(cl, pw, db, FALSE)]
                  ELSE sqlConMap,
          ok |-> FALSE]
    ELSE [map |-> [sqlConMap EXCEPT ![cl][db] = NewPool(cl, pw, db, TRUE)], ok |-> TRUE]

\* The call going from the acquisition straight to the pool fetch.
AfterAcquireNoRenew(ok) == IF ok THEN "pool" ELSE "return"

\* The position after a step of SqlConWithTempUser that returned err (ok = no error).
AfterAcquire(ok) == IF ok THEN "renew_pool" ELSE "return"

\* The renewal's error ignored.
AfterRenewUnchecked(ok) == "pool"

AfterRenew(ok) == IF ok THEN "pool" ELSE "return"
AfterPool(ok) == IF ok THEN "handler" ELSE "return"

\* The REASSIGN as a plain statement after the handler call: skipped by a panic.
CleanupAfterReturnRuns(out) == out \in {"result", "error"}

\* The deferred REASSIGN runs however the handler ended.
DeferredCleanupRuns(out) == out \in {"result", "error", "panic"}

\* A step of call c that ends the call with an error: the deferred unlock runs.
Fail(c, ev) == [calls EXCEPT ![c].pc = "returned", ![c].out = "error", ![c].log = Append(@, ev)]

\* An unlock that leaves the mutex held.
UnlockSkipped == TRUE

\* defer unlock(): the mutex after a call's exit, whichever return it took.
Unlock == FALSE

\* A Lock() that never blocks.
LockNeverBlocks == TRUE

\* h.lock.Lock() returns only while no other caller holds the mutex.
LockAvailable == ~lock

\* userCredMapResource.Get(): take the process-wide lock.  A caller that has
\* not entered is not calling, or is blocked in Lock().
Enter(c, cl, db) ==
    /\ ~ExecCrashed
    /\ \A d \in Callers : calls[d].pc # "returned"
    /\ calls[c].pc = "idle"
    /\ LockAvailable
    /\ lock' = TRUE
    /\ calls' = [calls EXCEPT ![c] = [IdleCall EXCEPT !.pc = "acquire", !.cluster = cl,
                                                      !.db = db, !.log = <<"lock">>]]
    /\ UNCHANGED <<credMap, sqlConMap, users, pwCount>>
    /\ UNCHANGED <<cfVars, declVars>>

\* getOrCreateTempUser: the cached user, or on to createTempUser.
Acquire(c) ==
    /\ calls[c].pc = "acquire"
    /\ calls' = IF credMap[calls[c].cluster] # NoUser
                THEN [calls EXCEPT ![c].pc = AfterAcquire(TRUE), ![c].log = Append(@, "acquired")]
                ELSE [calls EXCEPT ![c].pc = "delete"]
    /\ UNCHANGED <<lock, credMap, sqlConMap, users, pwCount>>
    /\ UNCHANGED <<cfVars, declVars>>

\* The answers of the cloud API to DELETE .../sql-users/<name>: done, no such
\* user, or any other failure.  What the API answers when there is no such
\* user is not fixed by the program: it may say done or not found.
DeleteAnswers(exists) == IF exists THEN {"200", "500"} ELSE {"200", "404", "500"}

\* processCloudResponse(resp, nil): nil for status 200, an error otherwise.
processCloudResponse(status) == status = "200"

\* createTempUser: deleteTempUser, the REST DELETE of the well-known user.
DeleteTempUser(c, status) ==
    /\ calls[c].pc = "delete"
    /\ LET cl == calls[c].cluster IN
       /\ status \in DeleteAnswers(users[cl].exists)
       /\ IF processCloudResponse(status)
          THEN /\ users' = [users EXCEPT ![cl].exists = FALSE]
               /\ calls' = [calls EXCEPT ![c].pc = "post", ![c].log = Append(@, "delete")]
               /\ UNCHANGED lock
          ELSE /\ calls' = Fail(c, IF status = "404" THEN "delete not found" ELSE "delete failed")
               /\ lock' = Unlock
               /\ UNCHANGED users
    /\ UNCHANGED <<credMap, sqlConMap, pwCount>>
    /\ UNCHANGED <<cfVars, declVars>>

\* createTempUser: the REST POST of the user with a fresh password.
PostTempUser(c, ok) ==
    /\ calls[c].pc = "post"
    /\ pwCount < MaxPw
    /\ LET cl == calls[c].cluster IN
       IF ok /\ ~users[cl].exists
       THEN /\ users' = [users EXCEPT ![cl] = [exists |-> TRUE, pw |-> pwCount + 1, valid |-> TRUE]]
            /\ calls' = [calls EXCEPT ![c].pc = "c_pool", ![c].log = Append(@, "post ok")]
            /\ UNCHANGED lock
       ELSE /\ calls' = Fail(c, "post failed")
            /\ lock' = Unlock
            /\ UNCHANGED users
    /\ pwCount' = pwCount + 1
    /\ UNCHANGED <<credMap, sqlConMap>>
    /\ UNCHANGED <<cfVars, declVars>>

\* createTempUser -> updateUserExpiration: getOrCreateConPool(.., "defaultdb").
CreatePool(c, how, kept) ==
    /\ calls[c].pc = "c_pool"
    /\ LET cl == calls[c].cluster
           g == getOrCreateConPool(cl, pwCount, "defaultdb", how, kept) IN
       /\ sqlConMap' = g.map
       /\ IF g.ok
          THEN /\ calls' = [calls EXCEPT ![c].pc = "c_alter", ![c].log = Append(@, "pool")]
               /\ UNCHANGED lock
          ELSE /\ calls' = Fail(c, "pool failed")
               /\ lock' = Unlock
    /\ UNCHANGED <<credMap, users, pwCount>>
    /\ UNCHANGED <<cfVars, declVars>>

\* createTempUser -> updateUserExpiration: ALTER USER .. WITH VALID UNTIL; then
\* getOrCreateTempUser stores the user in the credential map.
CreateAlter(c, ok) ==
    /\ calls[c].pc = "c_alter"
    /\ LET cl == calls[c].cluster IN
       IF ok /\ PoolExecOk(cl, "defaultdb")
       THEN /\ users' = [users EXCEPT ![cl].valid = TRUE]
            /\ credMap' = [credMap EXCEPT ![cl] = pwCount]
            /\ calls' = [calls EXCEPT ![c].pc = AfterAcquire(TRUE),
                                      ![c].log = @ \o <<"alter", "acquired">>]
            /\ UNCHANGED lock
       ELSE /\ calls' = Fail(c, "alter failed")
            /\ lock' = Unlock
            /\ UNCHANGED <<users, credMap>>
    /\ UNCHANGED <<sqlConMap, pwCount>>
    /\ UNCHANGED <<cfVars, declVars>>

\* SqlConWithTempUser -> updateUserExpiration: getOrCreateConPool(.., "defaultdb").
RenewPool(c, how, kept) ==
    /\ calls[c].pc = "renew_pool"
    /\ LET cl == calls[c].cluster
           g == getOrCreateConPool(cl, credMap[cl], "defaultdb", how, kept) IN
       /\ sqlConMap' = g.map
       /\ IF g.ok
          THEN /\ calls' = [calls EXCEPT ![c].pc = "renew_alter", ![c].log = Append(@, "pool")]
               /\ UNCHANGED lock
          ELSE /\ calls' = IF AfterRenew(FALSE) = "return" THEN Fail(c, "pool failed")
                           ELSE [calls EXCEPT ![c].pc = AfterRenew(FALSE)]
               /\ lock' = (AfterRenew(FALSE) # "return")
    /\ UNCHANGED <<credMap, users, pwCount>>
    /\ UNCHANGED <<cfVars, declVars>>

\* SqlConWithTempUser -> updateUserExpiration: ALTER USER .. WITH VALID UNTIL.
RenewAlter(c, ok) ==
    /\ calls[c].pc = "renew_alter"
    /\ LET cl == calls[c].cluster
           done == ok /\ PoolExecOk(cl, "defaultdb") IN
       /\ users' = IF done THEN [users EXCEPT ![cl].valid = TRUE] ELSE users
       /\ calls' = IF AfterRenew(done) = "return" THEN Fail(c, "alter failed")
                   ELSE [calls EXCEPT ![c].pc = AfterRenew(done),
                                      ![c].log = Append(@, IF done THEN "renewed"
                                                           ELSE "alter failed")]
       /\ lock' = (AfterRenew(done) # "return")
    /\ UNCHANGED <<credMap, sqlConMap, pwCount>>
    /\ UNCHANGED <<cfVars, declVars>>

\* SqlConWithTempUser: getOrCreateConPool(ctx, clusterId, user, database).
FetchPool(c, how, kept) ==
    /\ calls[c].pc = "pool"
    /\ LET cl == calls[c].cluster
           g == getOrCreateConPool(cl, credMap[cl], calls[c].db, how, kept) IN
       /\ sqlConMap' = g.map
       /\ calls' = IF AfterPool(g.ok) = "return" THEN Fail(c, "pool failed")
                   ELSE [calls EXCEPT ![c].pc = AfterPool(g.ok),
                                      ![c].log = @ \o <<"pool", "fetched">>]
       /\ lock' = (AfterPool(g.ok) # "return")
    /\ UNCHANGED <<credMap, users, pwCount>>
    /\ UNCHANGED <<cfVars, declVars>>

\* return handler(pool): the handler returns a result or an error, or panics.
Handler(c, out) ==
    /\ calls[c].pc = "handler"
    /\ out \in {"result", "error", "panic"}
    /\ calls' = [calls EXCEPT ![c].out = out, ![c].log = Append(@, "handler"),
                              ![c].pc = "deferred"]
    /\ UNCHANGED <<lock, credMap, sqlConMap, users, pwCount>>
    /\ UNCHANGED <<cfVars, declVars>>

\* The deferred functions, last registered first: REASSIGN OWNED BY .. TO admin
\* (its error is dropped), then unlock.
Deferred(c) ==
    /\ calls[c].pc = "deferred"
    /\ calls' = [calls EXCEPT ![c].pc = IF calls[c].out = "panic" THEN "panicked" ELSE "returned",
                              ![c].log = IF DeferredCleanupRuns(calls[c].out)
                                         THEN Append(@, "reassign") ELSE @]
    /\ lock' = Unlock
    /\ UNCHANGED <<credMap, sqlConMap, users, pwCount>>
    /\ UNCHANGED <<cfVars, declVars>>

\* The caller has the call's outcome and may call again.  A call that ended
\* returns at once: the steps of the others are taken before it ended or after
\* it returned.
CallReturn(c) ==
    /\ ~ExecCrashed
    /\ calls[c].pc = "returned"
    /\ calls' = [calls EXCEPT ![c] = IdleCall]
    /\ UNCHANGED <<lock, credMap, sqlConMap, users, pwCount>>
    /\ UNCHANGED <<cfVars, declVars>>

\* The user's VALID UNTIL passes.
UserExpires(cl) ==
    /\ ~ExecCrashed
    /\ \A c \in Callers : calls[c].pc # "returned"
    /\ users[cl].exists /\ users[cl].valid
    /\ users' = [users EXCEPT ![cl].valid = FALSE]
    /\ UNCHANGED <<lock, credMap, sqlConMap, pwCount, calls>>
    /\ UNCHANGED <<cfVars, declVars>>

\* The user is dropped on the cluster by someone else.
UserDropped(cl) ==
    /\ ~ExecCrashed
    /\ \A c \in Callers : calls[c].pc # "returned"
    /\ users[cl].exists
    /\ users' = [users EXCEPT ![cl].exists = FALSE]
    /\ UNCHANGED <<lock, credMap, sqlConMap, pwCount, calls>>
    /\ UNCHANGED <<cfVars, declVars>>

\* ------------------------------------------ changefeed options as statement text
\* Statement text is a sequence of symbols: an option's tag is one symbol, any
\* other character is a symbol of its own.
MaxLen == 2
Chars == {"a", ",", "'", "\\", " "}
Values == UNION {[1..n -> Chars] : n \in 0..MaxLen}
\* types.String: null, or a value.  types.Bool: "null", "true" or "false".
NullString == [set |-> FALSE, v |-> <<>>]
StringValue(v) == [set |-> TRUE, v |-> v]
Bools == {"null", "true", "false"}

\* The options of ChangefeedResourceModel.Options taken here, in field order:
\* two of its boolean and two of its string options.
StringTags == {"format", "resolved"}
BoolTags == {"diff", "updated"}
TagOrder == <<"diff", "format", "resolved", "updated">>
OptionSets ==
    [diff : Bools, format : {NullString} \cup {StringValue(v) : v \in Values},
     resolved : {NullString} \cup {StringValue(v) : v \in Values}, updated : Bools]

RECURSIVE Flatten(_)
Flatten(ss) == IF ss = <<>> THEN <<>> ELSE Head(ss) \o Flatten(Tail(ss))

\* strings.Replace(s, ch, with, -1) for a one-character ch
Replace(s, ch, with) == Flatten([i \in 1..Len(s) |-> IF s[i] = ch THEN with ELSE <<s[i]>>])

\* strings.Contains(s, ch) for a one-character ch
Contains(s, ch) == \E i \in 1..Len(s) : s[i] = ch

\* pq.QuoteLiteral
QuoteLiteral(literal) ==
    LET l1 == Replace(literal, "'", <<"'", "'">>) IN
    IF Contains(l1, "\\")
    THEN <<" ", "E", "'">> \o Replace(l1, "\\", <<"\\", "\\">>) \o <<"'">>
    ELSE <<"'">> \o l1 \o <<"'">>

\* strings.Join(elems, sep)
RECURSIVE Join(_, _)
Join(elems, sep) ==
    IF elems = <<>> THEN <<>>
    ELSE IF Len(elems) = 1 THEN elems[1]
    ELSE elems[1] \o sep \o Join(Tail(elems), sep)

\* Create's loop over the option fields: a boolean option that is not null
\* gives its tag, a string option that is not null gives tag=<quoted value>.
RenderOption(o, tag) ==
    IF tag \in BoolTags
    THEN IF o[tag] = "null" THEN <<>> ELSE <<<<tag>>>>
    ELSE IF ~o[tag].set THEN <<>> ELSE <<<<tag, "=">> \o QuoteLiteral(o[tag].v)>>

\* Create: optionsString, "WITH " and the options joined by ", ", or nothing.
Render(o) ==
    LET options == Flatten([i \in 1..Len(TagOrder) |-> RenderOption(o, TagOrder[i])]) IN
    IF Len(options) > 0 THEN <<"WITH", " ">> \o Join(options, <<",", " ">>) ELSE <<>>

\* strings.Trim(s, cutset)
RECURSIVE TrimLeft(_, _)
TrimLeft(s, cutset) ==
    IF s # <<>> /\ Head(s) \in cutset THEN TrimLeft(Tail(s), cutset) ELSE s
RECURSIVE TrimRight(_, _)
TrimRight(s, cutset) ==
    IF s # <<>> /\ s[Len(s)] \in cutset THEN TrimRight(SubSeq(s, 1, Len(s) - 1), cutset) ELSE s
Trim(s, cutset) == TrimRight(TrimLeft(s, cutset), cutset)
TrimSpace(s) == Trim(s, {" "})

\* removeQuotes
removeQuotes(s) == Trim(Trim(s, {"\""}), {"'"})

\* strings.Split(s, sep) for a one-character sep
RECURSIVE Split(_, _)
Split(s, sep) ==
    IF ~Contains(s, sep) THEN <<s>>
    ELSE LET i == CHOOSE k \in 1..Len(s) : s[k] = sep /\ \A m \in 1..(k - 1) : s[m] # sep IN
         <<SubSeq(s, 1, i - 1)>> \o Split(SubSeq(s, i + 1, Len(s)), sep)

\* strings.SplitN(s, "=", 2)
SplitKeyValue(s) ==
    IF ~Contains(s, "=") THEN <<s>>
    ELSE LET i == CHOOSE k \in 1..Len(s) : s[k] = "=" /\ \A m \in 1..(k - 1) : s[m] # "=" IN
         <<SubSeq(s, 1, i - 1), SubSeq(s, i + 1, Len(s))>>

\* Read: the text the statement's regular expression captures after "with".
OptionsRaw(text) ==
    IF Contains(text, "WITH")
    THEN LET i == CHOOSE k \in 1..Len(text) : text[k] = "WITH" /\ \A m \in 1..(k - 1) : text[m] # "WITH" IN
         TrimSpace(SubSeq(text, i + 1, Len(text)))
    ELSE <<>>

\* Read: one option of the list sets the field of its key; a boolean option
\* that is listed is true, a string option gets the unquoted value.
SetOption(data, option) ==
    LET optionParts == SplitKeyValue(option)
        key == TrimSpace(optionParts[1])
        value == IF Len(optionParts) > 1 THEN removeQuotes(TrimSpace(optionParts[2])) ELSE <<>> IN
    IF Len(key) # 1 THEN data
    ELSE IF key[1] \in BoolTags THEN [data EXCEPT ![key[1]] = "true"]
    ELSE IF key[1] \in StringTags THEN [data EXCEPT ![key[1]] = StringValue(value)]
    ELSE data

RECURSIVE SetOptions(_, _)
SetOptions(data, options) ==
    IF options = <<>> THEN data ELSE SetOptions(SetOption(data, Head(options)), Tail(options))

\* Read's option parser over the state data
Parse(data, text) ==
    SetOptions(data, Split(Trim(Trim(OptionsRaw(text), {"("}), {")"}), ","))

NoOptions == [diff |-> "null", format |-> NullString, resolved |-> NullString, updated |-> "null"]
FeedIdle == [pc |-> "declared", options |-> NoOptions, text |-> <<>>, state |-> NoOptions]

\* Create renders the declared options into the statement and saves them.
FeedCreate ==
    /\ feed.pc = "declared"
    /\ feed' = [feed EXCEPT !.pc = "created", !.text = Render(feed.options), !.state = feed.options]
    /\ UNCHANGED <<schedules, backup>>
    /\ UNCHANGED <<cfVars, lock, execVars>>

\* Read parses the options of the statement text into the saved state.
FeedRead ==
    /\ feed.pc = "created"
    /\ feed' = [feed EXCEPT !.pc = "read", !.state = Parse(feed.state, feed.text)]
    /\ UNCHANGED <<schedules, backup>>
    /\ UNCHANGED <<cfVars, lock, execVars>>

\* ------------------------------------------------ BackupScheduleResource.Create
Labels == {"nightly", "weekly"}
Names == {"a", "b"}
NullList == [set |-> FALSE, v |-> <<>>]
NameLists == {NullList} \cup {[set |-> TRUE, v |-> l] : l \in {<<>>, <<"a">>, <<"b">>, <<"a", "b">>}}
Targets == [tables : NameLists, databases : NameLists, full_cluster_backup : Bools]

\* The schema's validators of target: at least one of the three attributes is
\* set, and each conflicts with the other two.
ValidTarget(t) ==
    Cardinality({a \in {"tables", "databases", "full_cluster_backup"} :
                    IF a = "full_cluster_backup" THEN t[a] # "null" ELSE t[a].set}) = 1

\* Create: the target clause built from the plan's target.
TargetClause(t) ==
    IF t.full_cluster_backup # "null" /\ t.full_cluster_backup = "true" THEN <<>>
    ELSE IF t.tables.set
    THEN <<"TABLE", " ">> \o Join([i \in 1..Len(t.tables.v) |-> <<t.tables.v[i]>>], <<",">>)
    ELSE IF t.databases.set
    THEN <<"DATABASE", " ">> \o Join([i \in 1..Len(t.databases.v) |-> <<t.databases.v[i]>>], <<",">>)
    ELSE <<>>

\* The plan's backup_options: revision_history, and three strings that are
\* null or a value.
OptionValues == {NullString, StringValue(<<"v">>)}
BackupOptionSets ==
    [revision_history : Bools, encryption_passphrase : OptionValues, kms : OptionValues,
     incremental_backup_location : OptionValues]
NoBackupOptions ==
    [revision_history |-> "null", encryption_passphrase |-> NullString, kms |-> NullString,
     incremental_backup_location |-> NullString]

\* SanatizeValue for a value without quotes: the value between single quotes.
SanatizeValue(value) == <<"'">> \o value \o <<"'">>

\* Create: backupOptionsSet, the entries of the statement's WITH clause.
BackupOptionsSet(o) ==
    (IF o.revision_history # "null" /\ o.revision_history = "true"
     THEN <<<<"revision_history">>>> ELSE <<>>)
    \o (IF o.encryption_passphrase.set
        THEN <<<<"encryption_passphrase", "=">> \o SanatizeValue(o.encryption_passphrase.v)>>
        ELSE <<>>)
    \o (IF o.kms.set THEN <<<<"kms", "=">> \o SanatizeValue(o.kms.v)>> ELSE <<>>)

\* Create: backupOptions, "WITH " and the entries joined by ", ", or nothing.
BackupOptionsClause(o) ==
    IF Len(BackupOptionsSet(o)) > 0
    THEN <<"WITH", " ">> \o Join(BackupOptionsSet(o), <<",", " ">>) ELSE <<>>

\* The cluster the schedules are declared on.
ClusterId == "c1"

\* getBackupScheduleId: "backup_schedule|<clusterId>|<label>", a symbol each.
getBackupScheduleId(clusterId, label) == <<"backup_schedule", "|", clusterId, "|", label>>

NoTarget == [tables |-> NullList, databases |-> NullList, full_cluster_backup |-> "null"]
BackupIdle ==
    [pc |-> "idle", label |-> "nightly", target |-> NoTarget, options |-> NoBackupOptions,
     clause |-> <<>>, with |-> <<>>, executed |-> FALSE, err |-> FALSE, saved |-> FALSE,
     id |-> <<>>]

\* A Create that skips the existence check.
scheduleExistsUnchecked(label) == FALSE

\* SELECT EXISTS(SELECT * FROM [SHOW schedules for backup] WHERE label = $1)
scheduleExists(label) == label \in schedules

\* Create up to the existence check: the query fails, or finds the label, and
\* Create returns with an error; else it goes on to build the statement.
BackupCreateCheck(label, target, options, ok) ==
    /\ backup.pc = "idle"
    /\ ValidTarget(target)
    /\ options \in BackupOptionSets
    /\ backup' = IF ~ok \/ scheduleExists(label)
                 THEN [BackupIdle EXCEPT !.pc = "done", !.label = label, !.target = target, !.err = TRUE]
                 ELSE [BackupIdle EXCEPT !.pc = "build", !.label = label, !.target = target,
                                        !.options = options]
    /\ UNCHANGED <<feed, schedules>>
    /\ UNCHANGED <<cfVars, lock, execVars>>

\* Create from the statement's header on: the statement is built and executed.
\* CREATE SCHEDULE IF NOT EXISTS returns the new schedules' ids, or no row for
\* a label that is there by now; Create dereferences the full backup's id.
BackupCreateExec(ok) ==
    /\ backup.pc = "build"
    /\ LET sent == [backup EXCEPT !.clause = TargetClause(backup.target),
                                  !.with = BackupOptionsClause(backup.options),
                                  !.executed = TRUE] IN
       IF ~ok
       THEN /\ backup' = [sent EXCEPT !.pc = "done", !.err = TRUE]
            /\ UNCHANGED schedules
       ELSE IF backup.label \in schedules
       THEN /\ backup' = [sent EXCEPT !.pc = "panicked"]
            /\ UNCHANGED schedules
       ELSE /\ backup' = [sent EXCEPT !.pc = "done", !.saved = TRUE,
                                       !.id = getBackupScheduleId(ClusterId, backup.label)]
            /\ schedules' = schedules \cup {backup.label}
    /\ UNCHANGED feed
    /\ UNCHANGED <<cfVars, lock, execVars>>

\* Read of the schedule a Create has saved: with no full backup schedule of
\* the label on the cluster the resource is removed from state, else the
\* state's id is set from the schedule's label and the state is saved.
BackupRead(ok) ==
    /\ backup.pc = "done"
    /\ backup.saved
    /\ backup' = IF ~ok THEN [backup EXCEPT !.pc = "read", !.err = TRUE]
                 ELSE IF backup.label \notin schedules
                 THEN [backup EXCEPT !.pc = "read", !.saved = FALSE, !.id = <<>>]
                 ELSE [backup EXCEPT !.pc = "read", !.id = <<backup.label>>]
    /\ UNCHANGED <<feed, schedules>>
    /\ UNCHANGED <<cfVars, lock, execVars>>

\* The framework has the response; the next Create can be called.
BackupReturn ==
    /\ backup.pc \in {"done", "read"}
    /\ backup' = BackupIdle
    /\ UNCHANGED <<feed, schedules>>
    /\ UNCHANGED <<cfVars, lock, execVars>>

\* Someone else creates or drops a schedule on the cluster.
ScheduleCreated(l) ==
    /\ backup.pc # "panicked"
    /\ l \notin schedules
    /\ schedules' = schedules \cup {l}
    /\ UNCHANGED <<feed, backup>>
    /\ UNCHANGED <<cfVars, lock, execVars>>

ScheduleDropped(l) ==
    /\ backup.pc # "panicked"
    /\ l \in schedules
    /\ schedules' = schedules \ {l}
    /\ UNCHANGED <<feed, backup>>
    /\ UNCHANGED <<cfVars, lock, execVars>>

\* Nothing declared: no changefeed options in hand, no schedule being created.
DeclIdle == feed = FeedIdle /\ schedules = {} /\ backup = BackupIdle

\* ------------------------------------------------------------ specification
\* A provider process starts against a cluster that earlier runs left with one
\* running changefeed job and an empty cursor table.
CfInit ==
    /\ ledger = << >>
    /\ jobs = <<[status |-> "running", req |-> "none"]>>
    /\ lock = FALSE
    /\ proc = IdleProc

CfNext ==
    \/ \E j \in 1..MaxJobs : JobStarts(j)
    \/ \E j \in 1..MaxJobs : JobPauses(j)
    \/ \E j \in 1..MaxJobs : JobResumes(j)
    \/ \E j \in 1..MaxJobs, s \in {"failed", "succeeded"} : JobEnds(j, s)
    \/ \E j \in 1..MaxJobs : JobCanceled(j)
    \/ \E j \in 1..MaxJobs : JobUnlisted(j)
    \/ \E k \in Keys : CursorCreate(k)
    \/ \E k \in Keys : CursorDelete(k)
    \/ \E k \in Keys, j \in 0..MaxJobs : ConcurrentClaim(k, j)
    \/ \E k \in {NoKey} \cup Keys : CreateBegin(k)
    \/ \E a \in {"no", "pending", "running"} : CreateExec(a)
    \/ CreateWaitRunning
    \/ CreateClaim
    \/ CreateCancel
    \/ CreateWaitCanceled
    \/ \E st \in [jobId : 1..MaxJobs, status : Statuses, cursor : {NoKey} \cup Keys,
                  sel : BOOLEAN],
          k \in {NoKey} \cup Keys, b \in BOOLEAN : UpdateBegin(st, k, b, NoDelta)
    \/ UpdateClaim
    \/ UpdatePause
    \/ UpdateWaitPaused
    \/ \E accepted \in BOOLEAN : UpdateAlter(accepted)
    \/ UpdateResume
    \/ UpdateWaitRunning
    \/ \E j \in 1..MaxJobs, status \in Statuses : DeleteBegin(j, status)
    \/ DeleteWaitCanceled
    \/ Return

vars == <<ledger, jobs, lock, proc, credMap, sqlConMap, users, pwCount, calls, feed, schedules, backup>>

\* A fresh provider process: nothing cached, no pool, no call in progress.
ExecFresh ==
    /\ credMap = [cl \in Clusters |-> NoUser]
    /\ sqlConMap = [cl \in Clusters |-> [db \in Databases |-> NoPool]]
    /\ pwCount = 0
    /\ calls = [c \in Callers |-> IdleCall]

\* The well-known user may be left on a cluster by an earlier process.
ExecInit ==
    /\ ExecFresh
    /\ users \in [Clusters -> {[exists |-> FALSE, pw |-> 0, valid |-> FALSE],
                               [exists |-> TRUE, pw |-> 0, valid |-> TRUE],
                               [exists |-> TRUE, pw |-> 0, valid |-> FALSE]}]

ExecNext ==
    \/ \E c \in Callers, cl \in Clusters, db \in Databases : Enter(c, cl, db)
    \/ \E c \in Callers : Acquire(c)
    \/ \E c \in Callers, status \in {"200", "404", "500"} : DeleteTempUser(c, status)
    \/ \E c \in Callers, ok \in BOOLEAN : PostTempUser(c, ok)
    \/ \E c \in Callers, how \in {"rest", "open", "ok"}, kept \in BOOLEAN : CreatePool(c, how, kept)
    \/ \E c \in Callers, ok \in BOOLEAN : CreateAlter(c, ok)
    \/ \E c \in Callers, how \in {"rest", "open", "ok"}, kept \in BOOLEAN : RenewPool(c, how, kept)
    \/ \E c \in Callers, ok \in BOOLEAN : RenewAlter(c, ok)
    \/ \E c \in Callers, how \in {"rest", "open", "ok"}, kept \in BOOLEAN : FetchPool(c, how, kept)
    \/ \E c \in Callers, out \in {"result", "error", "panic"} : Handler(c, out)
    \/ \E c \in Callers : Deferred(c)
    \/ \E c \in Callers : CallReturn(c)
    \/ \E cl \in Clusters : UserExpires(cl)
    \/ \E cl \in Clusters : UserDropped(cl)

\* The changefeed handlers against the cluster's jobs and the cursor table.
Init ==
    /\ CfInit
    /\ ExecFresh
    /\ users = [cl \in Clusters |-> [exists |-> FALSE, pw |-> 0, valid |-> FALSE]]
    /\ DeclIdle
Next == CfNext
Spec == Init /\ [][Next]_vars

\* The SqlConWithTempUser calls of the provider's goroutines.
InitExec == CfInit /\ ExecInit /\ DeclIdle
NextExec == ExecNext
SpecExec == InitExec /\ [][NextExec]_vars

\* Updates of a changefeed without persistent cursor, for every plan delta.
\* (No step of Update depends on the delta: Spec takes the plan that changes
\* neither targets nor options.)
InitAlter == Init
NextAlter ==
    \/ \E j \in 1..MaxJobs : JobPauses(j)
    \/ \E j \in 1..MaxJobs : JobResumes(j)
    \/ \E j \in 1..MaxJobs, s \in {"failed", "succeeded"} : JobEnds(j, s)
    \/ \E st \in [jobId : 1..MaxJobs, status : Statuses, cursor : {NoKey}, sel : BOOLEAN],
          b \in BOOLEAN, d \in Deltas : UpdateBegin(st, NoKey, b, d)
    \/ UpdatePause
    \/ UpdateWaitPaused
    \/ \E accepted \in BOOLEAN : UpdateAlter(accepted)
    \/ UpdateResume
    \/ UpdateWaitRunning
    \/ Return
SpecAlter == InitAlter /\ [][NextAlter]_vars

\* A changefeed of any declared option set is created and then read.
InitFeed ==
    /\ CfInit
    /\ ExecFresh
    /\ users = [cl \in Clusters |-> [exists |-> FALSE, pw |-> 0, valid |-> FALSE]]
    /\ feed \in {[FeedIdle EXCEPT !.options = o] : o \in OptionSets}
    /\ schedules = {}
    /\ backup = BackupIdle
NextFeed == FeedCreate \/ FeedRead
SpecFeed == InitFeed /\ [][NextFeed]_vars

\* Backup schedule Creates against a cluster whose schedules come and go.
InitBackup ==
    /\ CfInit
    /\ ExecFresh
    /\ users = [cl \in Clusters |-> [exists |-> FALSE, pw |-> 0, valid |-> FALSE]]
    /\ feed = FeedIdle
    /\ schedules \in SUBSET Labels
    /\ backup = BackupIdle
NextBackup ==
    \/ \E label \in Labels, target \in Targets, options \in BackupOptionSets, ok \in BOOLEAN :
            BackupCreateCheck(label, target, options, ok)
    \/ \E ok \in BOOLEAN : BackupCreateExec(ok)
    \/ \E ok \in BOOLEAN : BackupRead(ok)
    \/ BackupReturn
    \/ \E l \in Labels : ScheduleCreated(l)
    \/ \E l \in Labels : ScheduleDropped(l)
SpecBackup == InitBackup /\ [][NextBackup]_vars

\* ================================================================ properties
IsPrefix(s, t) == Len(s) <= Len(t) /\ \A i \in 1..Len(s) : s[i] = t[i]
Last(s) == s[Len(s)]

\* The statements of a successful Update and the statuses its watcher matched.
UpdateSteps == <<"PAUSE", "saw paused", "ALTER", "RESUME", "saw running">>

\* C1: in every reachable state of the persistent_cursors table no two cursor
\* rows hold the same non-null last_used_job_id, whatever the order of cursor
\* creates, claims, releases and deletes.
C1_OneCursorPerJob ==
    \A k1, k2 \in DOMAIN ledger : (k1 # k2 /\ ledger[k1] # Null) => ledger[k1] # ledger[k2]

\* A claim was refused because another row references the job.
C1_Witness ==
    /\ proc.claim = "multi"
    /\ \E k \in DOMAIN ledger : k # proc.claimKey /\ ledger[k] = proc.claimJob

\* C2: a claim on a cursor whose referenced job is running or paused fails with
\* an error; a claim on a cursor whose referenced job is canceled, failed,
\* succeeded or canceling returns no error and sets the row to the new job id,
\* provided no other cursor references the new job.
C2_ClaimOutcome ==
    (proc.claim \in {"inuse", "multi", "committed"} /\ proc.claimJob # Null) =>
        /\ proc.claimPrev \in {"running", "paused"} => proc.claimErr # "nil"
        /\ (proc.claimPrev \in Terminal /\ proc.claim # "multi") =>
               (proc.claim = "committed" /\ proc.claimErr = "nil")

\* C3: an Update that passed validation issues PAUSE JOB, ALTER CHANGEFEED and
\* RESUME JOB in that order, ALTER only after the watcher matched paused (and
\* the watcher matches a status only when the job has it), reports success only
\* after the watcher matched running following RESUME, and saves status running.
C3_UpdateOrder ==
    /\ [](proc.op = "update" =>
            /\ IsPrefix(proc.log, UpdateSteps)
            /\ proc.saved => (proc.log = UpdateSteps /\ proc.savedStatus = "running" /\ ~proc.err))
    /\ [][(proc'.op = "update" /\ proc'.log # proc.log) =>
            /\ Last(proc'.log) = "saw paused" => JobStatusOf(proc.jobId) = "paused"
            /\ Last(proc'.log) = "saw running" => JobStatusOf(proc.jobId) = "running"]_vars

\* An Update went through all five steps and saved its plan.
C3_Witness ==
    proc.op = "update" /\ proc.pc = "done" /\ proc.saved /\ proc.log = UpdateSteps

\* C4: an Update whose plan changes end_time, full_table_name or initial_scan
\* fails with an error and sends no ALTER CHANGEFEED (it sends no statement to
\* the job at all and saves nothing).
C4_BannedUpdateFails ==
    (proc.op = "update" /\ proc.banned) =>
        /\ proc.log = <<>>
        /\ ~proc.saved
        /\ proc.pc \in {"u_claim", "done", "crashed"}
        /\ proc.pc = "done" => proc.err

\* An Update that passed the status and select checks was refused for a
\* changed immutable option.
C4_Witness ==
    /\ proc.op = "update" /\ proc.banned /\ proc.pc = "done" /\ proc.err
    /\ proc.jobId # 0 /\ proc.claimErr = "nil"

\* C5: when the claim of the persistent cursor fails after the job was created
\* and seen running, the finished Create has sent CANCEL JOB, reports an error,
\* saves no state and has not left the job running.
C5_FailedClaimCancelsJob ==
    (proc.op = "create" /\ proc.claim # "none" /\ proc.claimErr # "nil"
        /\ proc.pc \in {"done", "crashed"}) =>
        /\ Has(proc.log, "CANCEL")
        /\ proc.err /\ ~proc.saved
        /\ JobStatusOf(proc.jobId) # "running"

\* C6: a Create without persistent_cursor whose CREATE CHANGEFEED was accepted
\* and whose job was seen running finishes without error, saves the job id and
\* status running, and does not cancel the job.
C6_CreateWithoutCursor ==
    (proc.op = "create" /\ proc.cursorKey = NoKey /\ Has(proc.log, "saw running")
        /\ proc.pc = "done") =>
        /\ ~proc.err
        /\ proc.saved /\ proc.savedJob = proc.jobId /\ proc.savedStatus = "running"
        /\ ~Has(proc.log, "CANCEL")

\* C7: when the job returned by CREATE CHANGEFEED is not seen running within the
\* watcher's attempts, the finished Create has sent CANCEL JOB for it.
C7_TimeoutCancelsJob ==
    (proc.op = "create" /\ proc.jobId # 0 /\ ~Has(proc.log, "saw running")
        /\ proc.pc = "done") =>
        Has(proc.log, "CANCEL")

\* C8: an Update whose state status is canceled, failed, succeeded or canceling
\* returns an error, sends no statement, calls no ledger operation and leaves
\* the cursor table as it was.
C8_TerminalUpdateRefused ==
    /\ [](proc.op = "update" /\ proc.stStatus \in Terminal =>
            /\ proc.pc = "done" /\ proc.err /\ ~proc.saved
            /\ proc.log = <<>>
            /\ proc.claim = "none")
    /\ [][(proc.pc = "idle" /\ proc'.op = "update" /\ proc'.stStatus \in Terminal) =>
            ledger' = ledger]_vars

\* An Update with a terminal state status was refused while a cursor row exists.
C8_Witness ==
    /\ proc.op = "update" /\ proc.stStatus \in Terminal /\ proc.pc = "done" /\ proc.err
    /\ DOMAIN ledger # {}

\* The steps of a SqlConWithTempUser call that the ordering is about.
CallSteps == <<"acquired", "renewed", "fetched", "handler", "reassign">>

\* In a call's log every step of CallSteps that happened happened once, after
\* the step before it.
InOrder(log) ==
    /\ \A n \in 1..Len(CallSteps) : Count(log, CallSteps[n]) <= 1
    /\ \A n \in 2..Len(CallSteps) :
          Has(log, CallSteps[n]) =>
              /\ Has(log, CallSteps[n - 1])
              /\ First(log, CallSteps[n - 1]) < First(log, CallSteps[n])

\* Every getOrCreateConPool call in the log comes after one of the events in `after`.
PoolOnlyAfter(log, after) ==
    \A i \in 1..Len(log) :
        log[i] \in {"pool", "pool failed"} => \E j \in 1..(i - 1) : log[j] \in after

\* C9 as stated: in every SqlConWithTempUser call the steps come in the order
\* acquire, renew, fetch pool, handler, cleanup; the handler runs only after
\* acquisition, renewal and pool fetch succeeded; and no pool is fetched or
\* created before the principal has been acquired.
C9_OrderAndNoPoolBeforeAcquire ==
    \A c \in Callers :
        /\ InOrder(calls[c].log)
        /\ PoolOnlyAfter(calls[c].log, {"acquired"})

\* C9 amended: the same order and the same guard on the handler; a pool is
\* fetched or created only after the principal was found cached or, on a first
\* acquire, after this call created it on the cluster.
C9_OrderAndNoPoolBeforePrincipal ==
    \A c \in Callers :
        /\ InOrder(calls[c].log)
        /\ PoolOnlyAfter(calls[c].log, {"acquired", "post ok"})

\* A call that created the principal, fetched the defaultdb pool inside the
\* acquisition, ran the handler and the cleanup, and returned.
C9_Witness ==
    \E c \in Callers :
        /\ calls[c].pc = "returned"
        /\ Has(calls[c].log, "post ok") /\ Has(calls[c].log, "reassign")
        /\ First(calls[c].log, "pool") < First(calls[c].log, "acquired")

\* C10: whenever the handler was invoked, REASSIGN OWNED BY .. TO admin is
\* executed exactly once, after the handler, by the time the call has ended,
\* be it with a result, an error or a panic; it is never executed otherwise.
C10_CleanupExactlyOnce ==
    \A c \in Callers :
        /\ Count(calls[c].log, "reassign") <= 1
        /\ Has(calls[c].log, "reassign") =>
              /\ Has(calls[c].log, "handler")
              /\ First(calls[c].log, "handler") < First(calls[c].log, "reassign")
        /\ (calls[c].pc \in {"returned", "panicked"} /\ Has(calls[c].log, "handler")) =>
              Count(calls[c].log, "reassign") = 1

\* A call whose handler panicked has ended, with the cleanup executed.
C10_Witness ==
    \E c \in Callers :
        /\ calls[c].pc = "panicked" /\ calls[c].out = "panic"
        /\ Has(calls[c].log, "reassign")

\* The positions of a call inside getOrCreateTempUser, and those inside createTempUser.
AcquirePcs == {"acquire", "delete", "post", "c_pool", "c_alter"}
CreatePcs == {"delete", "post", "c_pool", "c_alter"}

AlterEvents == {"alter", "alter failed", "renewed"}
AlterCount(log) == Cardinality({i \in 1..Len(log) : log[i] \in AlterEvents})

\* C12: once a principal is cached for a cluster (one acquire has succeeded) it
\* stays cached, a create request (POST sql-users) is sent only while none is
\* cached, and a call that took the principal from the cache has sent exactly
\* one ALTER USER .. VALID UNTIL by the time its handler runs.
C12_CachedAcquireRenewsOnce ==
    /\ [](\A c \in Callers :
            (Has(calls[c].log, "handler") /\ ~Has(calls[c].log, "post ok")) =>
                /\ AlterCount(calls[c].log) = 1
                /\ First(calls[c].log, "renewed") < First(calls[c].log, "handler"))
    /\ [][\A c \in Callers :
            (Len(calls'[c].log) > Len(calls[c].log)
                /\ Last(calls'[c].log) \in {"post ok", "post failed"}) =>
                credMap[calls[c].cluster] = NoUser]_vars
    /\ [][\A cl \in Clusters : credMap[cl] # NoUser => credMap'[cl] = credMap[cl]]_vars

\* A call that took the principal from the cache ran its handler after one renewal.
C12_Witness ==
    \E c \in Callers :
        /\ Has(calls[c].log, "handler") /\ ~Has(calls[c].log, "post ok")
        /\ Count(calls[c].log, "renewed") = 1

\* C13: the handler is invoked only with a principal that exists on the cluster
\* and is not expired: it runs only after this call's renewal succeeded, and a
\* call whose acquisition meets a principal that is gone from the cluster
\* (cached or not) goes on to create it.
C13_PrincipalLiveAtHandler ==
    /\ [](\A c \in Callers : Has(calls[c].log, "handler") => Has(calls[c].log, "renewed"))
    /\ [][\A c \in Callers :
            (calls[c].pc = "acquire" /\ calls'[c].pc # "acquire"
                /\ ~users[calls[c].cluster].exists) =>
                calls'[c].pc = "delete"]_vars

\* C14: on a first acquire (no cached principal) the delete-before-create is
\* idempotent: a call that found no user of the well-known name to delete does
\* not fail because of it.
C14_NothingToDeleteDoesNotFail ==
    \A c \in Callers : ~Has(calls[c].log, "delete not found")

\* C15: whatever the calls and their interleaving, at most one pool is ever
\* created for a (cluster, database) key, a pool in the registry is never
\* replaced, and a call fetching the pool of a key that has one gets that pool.
C15_OnePoolPerKey ==
    /\ [](\A cl \in Clusters, db \in Databases : sqlConMap[cl][db].gen <= 1)
    /\ [][\A cl \in Clusters, db \in Databases :
            sqlConMap[cl][db] # NoPool => sqlConMap'[cl][db] = sqlConMap[cl][db]]_vars
    /\ [][\A c \in Callers :
            (calls[c].pc = "pool" /\ calls'[c].pc # "pool"
             /\ sqlConMap[calls[c].cluster][calls[c].db] # NoPool) =>
                calls'[c].pc = "handler"]_vars

\* A later call, made with the cached principal, has fetched the pool that the
\* first call created for the key.
C15_Witness ==
    \E c \in Callers :
        /\ Has(calls[c].log, "fetched") /\ ~Has(calls[c].log, "post ok")
        /\ calls[c].db = "defaultdb"
        /\ sqlConMap[calls[c].cluster]["defaultdb"].open
        /\ sqlConMap[calls[c].cluster]["defaultdb"].gen = 1

\* The handler positions inside waitForJobStatus and the status each awaits.
WaitPcs == {"c_wait_running", "c_wait_canceled", "u_wait_paused", "u_wait_running", "d_wait_canceled"}
Awaited(pc) ==
    IF pc \in {"c_wait_canceled", "d_wait_canceled"} THEN "canceled"
    ELSE IF pc = "u_wait_paused" THEN "paused" ELSE "running"

\* C16: waitForJobStatus makes at most 20 status queries: fewer than 20 have
\* failed whenever it is about to query; the query that observes the awaited
\* status ends the wait with success and no further query; the 20th query
\* that does not observe it ends the wait without success; any other query
\* is followed by one more.
C16_WatcherBounded ==
    /\ [](proc.pc \in WaitPcs => proc.attempts < Attempts)
    /\ [][(proc.pc \in WaitPcs /\ proc' # proc) =>
            IF JobStatusOf(proc.jobId) = Awaited(proc.pc)
            THEN proc'.pc \notin WaitPcs /\ Len(proc'.log) = Len(proc.log) + 1
            ELSE IF proc.attempts = Attempts - 1
            THEN proc'.pc \notin WaitPcs /\ proc'.log = proc.log
            ELSE proc'.pc = proc.pc /\ proc'.attempts = proc.attempts + 1]_vars

\* Nineteen queries have not observed the awaited status; the 20th is next.
C16_Witness == proc.pc \in WaitPcs /\ proc.attempts = Attempts - 1

\* C17: for every option set, parsing the WITH clause Create rendered from it
\* with Read's parser yields the option set again.
C17_OptionsRoundTrip == feed.pc = "read" => feed.state = feed.options

\* C19: a Create whose label is on a schedule of the cluster at its existence
\* check returns an error: it does not execute CREATE SCHEDULE and saves no state.
C19_ExistingLabelRefused ==
    [][(backup.pc = "idle" /\ backup'.pc # "idle" /\ backup'.label \in schedules) =>
            /\ backup'.pc = "done" /\ backup'.err
            /\ ~backup'.executed /\ ~backup'.saved]_vars

\* A Create has returned its error for a label that is on the cluster.
C19_Witness ==
    /\ backup.pc = "done" /\ backup.err /\ ~backup.executed /\ ~backup.saved
    /\ backup.label \in schedules

\* The names of a declared list, separated by commas.
Listed(l) == Join([i \in 1..Len(l.v) |-> <<l.v[i]>>], <<",">>)

\* C20: the target clause of the executed CREATE SCHEDULE follows the declared
\* target: empty for full_cluster_backup, TABLE and the tables, DATABASE and
\* the databases; it is empty only when full_cluster_backup is declared true.
C20_TargetClause ==
    backup.executed =>
        /\ backup.target.full_cluster_backup = "true" => backup.clause = <<>>
        /\ backup.target.tables.set => backup.clause = <<"TABLE", " ">> \o Listed(backup.target.tables)
        /\ backup.target.databases.set => backup.clause = <<"DATABASE", " ">> \o Listed(backup.target.databases)
        /\ backup.clause = <<>> => backup.target.full_cluster_backup = "true"

\* C18: a persistent cursor survives the replacement of its changefeed: a
\* Create naming a cursor whose last job is canceled, once its claim of the
\* cursor is committed, succeeds: it reports no error, saves the new job, and
\* the cursor's last_used_job_id is the new job's id.
C18_CursorSurvivesReplacement ==
    (proc.op = "create" /\ proc.cursorKey # NoKey
     /\ proc.claim = "committed" /\ proc.claimPrev = "canceled") =>
        /\ ~proc.err
        /\ proc.pc = "done" /\ proc.saved /\ proc.savedJob = proc.jobId
        /\ ledger[proc.cursorKey] = proc.jobId

\* C21: the executed CREATE SCHEDULE statement carries every declared backup
\* option: revision_history when declared true, and encryption_passphrase, kms
\* and the incremental backup location whenever they are declared.
C21_DeclaredOptionsInStatement ==
    backup.executed =>
        /\ backup.options.revision_history = "true" => Contains(backup.with, "revision_history")
        /\ backup.options.encryption_passphrase.set => Contains(backup.with, "encryption_passphrase")
        /\ backup.options.kms.set => Contains(backup.with, "kms")
        /\ backup.options.incremental_backup_location.set =>
                Contains(backup.with, "incremental_backup_location")

\* C22: the id kept in state is the composite key <kind>|<clusterId>|<label>
\* whose first segment names the resource kind, after Create and after Read:
\* Read does not replace the id Create produced with a value of another form.
C22_CompositeId ==
    (backup.saved /\ backup.pc \in {"done", "read"}) =>
        backup.id = <<"backup_schedule", "|", ClusterId, "|", backup.label>>

\* C23: an Update that fails after its PAUSE JOB was accepted returns the
\* error with the new plan not saved and sends no statement after the step
\* that failed (no RESUME after a failed ALTER): its statements stay a prefix
\* of the successful order and end at the failing step.
C23_FailedUpdateStops ==
    /\ [](proc.op = "update" /\ proc.err /\ Has(proc.log, "PAUSE") =>
            /\ proc.pc = "done" /\ ~proc.saved
            /\ IsPrefix(proc.log, UpdateSteps) /\ Len(proc.log) < Len(UpdateSteps))
    /\ [][(proc.op = "update" /\ proc.err /\ proc' # IdleProc) => proc'.log = proc.log]_vars

\* ALTER CHANGEFEED failed after the job was seen paused: no RESUME was sent
\* and the job is left paused.
C23_Witness ==
    /\ proc.op = "update" /\ proc.err /\ proc.pc = "done"
    /\ proc.log = <<"PAUSE", "saw paused", "ALTER">>
    /\ JobStatusOf(proc.jobId) = "paused"

\* C24: an Update on a running changefeed that changes persistent_cursor
\* (adds a free cursor, removes its cursor, or replaces its cursor by a free
\* one) succeeds in its claim or release, and afterwards the newly declared
\* cursor, if any, references the job and the previous one no longer does.
C24_CursorChangeApplied ==
    [][(/\ proc.op = "update" /\ proc.pc = "u_claim" /\ proc'.pc # "u_claim"
        /\ JobStatusOf(proc.jobId) = "running"
        /\ proc.stCursor # NoKey =>
               (proc.stCursor \in DOMAIN ledger /\ ledger[proc.stCursor] = proc.jobId)
        /\ proc.cursorKey # NoKey =>
               (proc.cursorKey \in DOMAIN ledger /\ ledger[proc.cursorKey] = Null)
        /\ \A k \in DOMAIN ledger : ledger[k] = proc.jobId => k = proc.stCursor) =>
            /\ proc'.claimErr = "nil"
            /\ proc.cursorKey # NoKey => ledger'[proc.cursorKey] = proc.jobId
            /\ proc.stCursor # NoKey => ledger'[proc.stCursor] # proc.jobId]_vars

\* C25: an Update that is rejected (a changed end_time, full_table_name or
\* initial_scan, a select-based changefeed, a state that is not running or
\* paused) modifies no cursor's last_used_job_id in any of its steps.
C25_RejectedUpdateKeepsLedger ==
    [][(proc'.op = "update" /\ proc' # proc
        /\ (proc'.banned \/ NotRunning(proc'.stStatus))) => ledger' = ledger]_vars

\* C26: UpdateCursorJobId returns an error exactly when it leaves the table as
\* it was: a call that returned an error has not committed a new owner, and a
\* call that committed returned no error.
C26_ErrorIffUnchanged ==
    proc.claim # "none" =>
        /\ proc.claimErr # "nil" => proc.claim # "committed"
        /\ proc.claim = "committed" => proc.claimErr = "nil"

\* C27: a claim or release on a cursor whose last_used_job_id names a job the
\* cluster no longer lists does not crash and takes the cursor as free: it
\* commits unless another cursor references the new job.
C27_UnlistedOwnerIsFree ==
    (proc.claim # "none" /\ proc.claimPrev = NoStatus) => proc.claim \in {"norows", "multi", "committed"}

\* C28: Update sends ALTER CHANGEFEED only with at least one ADD, DROP, SET
\* or UNSET clause: an Update whose plan changes no target and no mutable
\* option never sends an ALTER with an empty clause list.
C28_AlterHasClause ==
    (proc.op = "update" /\ Has(proc.log, "ALTER")) => proc.clauses # {}

\* The positions of a call between taking the lock and its exit.
InCallPcs == {"acquire", "delete", "post", "c_pool", "c_alter", "renew_pool", "renew_alter",
              "pool", "handler", "deferred"}

C30_PoolsMatchPrincipal ==
    /\ [](\A cl \in Clusters, db \in Databases :
            (credMap[cl] # NoUser /\ sqlConMap[cl][db] # NoPool) =>
                sqlConMap[cl][db].pw = credMap[cl])
    /\ [][\A c \in Callers :
            (calls[c].pc = "c_pool" /\ calls'[c].pc = "c_alter"
             /\ sqlConMap[calls[c].cluster]["defaultdb"].open) =>
                sqlConMap'[calls[c].cluster]["defaultdb"].pw = pwCount]_vars

====
